---- MODULE Spec2Model ----
(***************************************************************************)
(* Model of the GatoLang language server's validation pipeline             *)
(* (server/src/server.ts): debounced and immediate scheduling, temp-file   *)
(* materialisation, the gatoc invocation, diagnostic mapping, publication  *)
(* and stale-diagnostic clearing.                                          *)
(***************************************************************************)
EXTENDS Integers, Sequences, FiniteSets, TLC

(***************************************************************************)
(* Bounds of the model.                                                    *)
(***************************************************************************)
\* validation runs started in one behaviour of Spec
MaxRuns == 2
\* setTimeout calls in one behaviour
MaxTimers == 2
\* validation runs started in one behaviour of PubSpec
MaxPubRuns == 2
\* validation runs started in one behaviour of DiskSpec
MaxDiskRuns == 2
\* validation runs started in one behaviour of SeqSpec
MaxSeqRuns == 3
\* diagnostics in one compiler response
MaxDiags == 2
\* last value of the millisecond clock
MaxClock == 450
\* the clock advances in steps of this many milliseconds
TickMs == 150

(***************************************************************************)
(* Program constants.                                                      *)
(***************************************************************************)
\* server.ts:23
debounceMs == 300

\* process.pid, one value for the life of the server process (server.ts:195)
ProcessPid == "4242"

(***************************************************************************)
(* Paths.  A path string is modelled by its absolute flag and its list of  *)
(* segments; a segment is a file name, split the way the code splits it.   *)
(* A temp file name `.gatolang-lsp-<base>-<pid>-<ts>.gw` is the segment    *)
(* with mark = TRUE: the string is determined by, and determines, the      *)
(* triple (base, pid, ts), the pid being the same in every name.           *)
(***************************************************************************)
Seg(base, ext) == [mark |-> FALSE, base |-> base, pid |-> "", ts |-> 0, ext |-> ext]

Dot == Seg(".", "")

DotDot == Seg("..", "")

AbsPath(segs) == [abs |-> TRUE, segs |-> segs]

RelPath(segs) == [abs |-> FALSE, segs |-> segs]

\* the empty string; it also stands for null: the code only tests `!p`
NoPath == RelPath(<<>>)

Falsy(p) == p = NoPath

\* working directory of the server process
Cwd == <<Seg("srv", "")>>

\* os.tmpdir()
TmpDir == AbsPath(<<Seg("tmp", "")>>)

Front(s) == SubSeq(s, 1, Len(s) - 1)

Last(s) == s[Len(s)]

\* removal of "." and ".." segments, as path.normalize does on an absolute path
RECURSIVE NormalizeSegs(_, _)
NormalizeSegs(done, rest) ==
    IF rest = <<>> THEN done
    ELSE IF Head(rest) = Dot THEN NormalizeSegs(done, Tail(rest))
    ELSE IF Head(rest) = DotDot
         THEN NormalizeSegs(IF done = <<>> THEN done ELSE Front(done), Tail(rest))
    ELSE NormalizeSegs(Append(done, Head(rest)), Tail(rest))

\* path.resolve(from, p) for an absolute `from`
Resolve2(from, p) ==
    IF p.abs THEN AbsPath(NormalizeSegs(<<>>, p.segs))
    ELSE AbsPath(NormalizeSegs(<<>>, from.segs \o p.segs))

\* path.resolve(p)
Resolve(p) == Resolve2(AbsPath(Cwd), p)

IsAbsolute(p) == p.abs

\* path.dirname of a path with at least one segment
Dirname(p) == [abs |-> p.abs, segs |-> Front(p.segs)]

\* path.join(dir, fileName)
Join(dir, seg) == [abs |-> dir.abs, segs |-> NormalizeSegs(<<>>, Append(dir.segs, seg))]

\* path.basename(p, path.extname(p))
BaseNoExt(p) == Last(p.segs).base

(***************************************************************************)
(* URIs.  A URI string is its scheme, its percent-encoding style (the      *)
(* editor and Node spell the same resource differently when the path holds *)
(* characters that only one of them escapes) and the path it encodes.      *)
(***************************************************************************)
FileUri(enc, p) == [scheme |-> "file", enc |-> enc, path |-> p]

\* fileURLToPath: decodes the path; throws for a scheme other than file
FileURLToPathThrows(uri) == uri.scheme # "file"

FileURLToPath(uri) == uri.path

\* the bug of taking the path of any URI, whatever its scheme
uriToPathAnyScheme(uri) == uri.path

\* server.ts uriToPath: the path, or null (here NoPath) when the conversion throws
uriToPath(uri) == IF FileURLToPathThrows(uri) THEN NoPath ELSE FileURLToPath(uri)

\* pathToFileURL(p).toString(): resolves the path and encodes it Node's way
PathToFileURL(p) == FileUri("node", Resolve(p))

\* the resource the editor files a published URI under (it parses the URI)
ClientKey(uri) == [scheme |-> uri.scheme, path |-> uri.path]

(***************************************************************************)
(* The documents of the editor session.                                    *)
(***************************************************************************)
Docs == {"D1", "D2", "D3"}

\* the documents of the scheduling-centred runs: a file and an untitled buffer
SchedDocs == {"D1", "D3"}

\* the document of the publication-centred runs: the file whose URI the editor
\* spells its own way
PubDocs == {"D2"}

\* the documents of the disk-centred runs: two files with one base name
DiskDocs == {"D1", "D2"}

\* the documents of the one-run-at-a-time runs: two files that import a third
SeqDocs == {"D1", "D2"}

ProjDir == AbsPath(<<Seg("proj", "")>>)

LibDir == AbsPath(<<Seg("lib[1]", "")>>)

DocUri(d) ==
    CASE d = "D1" -> FileUri("node", Join(ProjDir, Seg("foo", ".gw")))
      [] d = "D2" -> FileUri("vscode", Join(LibDir, Seg("foo", ".gw")))
      [] OTHER    -> [scheme |-> "untitled", enc |-> "vscode",
                      path |-> RelPath(<<Seg("Untitled-1", "")>>)]

\* a file next to D1 that both documents may import
SharedFile == Join(ProjDir, Seg("bar", ".gw"))

(***************************************************************************)
(* Diagnostics.  An optional field is a sequence of length 0 or 1.         *)
(***************************************************************************)
Pos(l, c) == [line |-> l, character |-> c]

Range(sl, sc, el, ec) == [start |-> Pos(sl, sc), end |-> Pos(el, ec)]

\* server.ts:118 and :156
DefaultRange == Range(0, 0, 0, 1)

\* server.ts severityFromString
severityFromString(value) ==
    CASE value = "warning" -> "Warning"
      [] value = "info"    -> "Information"
      [] OTHER             -> "Error"

\* server.ts convertDiagnostic
convertDiagnostic(diag) ==
    [range    |-> IF diag.range = <<>> THEN DefaultRange ELSE diag.range[1],
     severity |-> severityFromString(diag.severity),
     message  |-> diag.message,
     code     |-> diag.code]

UnknownFile == RelPath(<<Seg("unknown", "")>>)

\* server.ts normalizeDiagFile
normalizeDiagFile(file, fallback) ==
    IF Falsy(file) \/ file = UnknownFile THEN fallback
    ELSE IF IsAbsolute(file) THEN file
    ELSE Resolve2(Dirname(fallback), file)

(***************************************************************************)
(* A JavaScript Map is the sequence of its entries in insertion order.     *)
(***************************************************************************)
MapKeys(m) == {m[i].key : i \in 1..Len(m)}

MapHas(m, k) == k \in MapKeys(m)

MapGet(m, k) == (CHOOSE i \in 1..Len(m) : m[i].key = k)

\* result.get(k) ?? []
MapGetOrEmpty(m, k) == IF MapHas(m, k) THEN m[MapGet(m, k)].val ELSE <<>>

\* result.set(k, v): an existing key keeps its place
MapSet(m, k, v) ==
    IF MapHas(m, k)
    THEN [i \in 1..Len(m) |-> IF m[i].key = k THEN [key |-> k, val |-> v] ELSE m[i]]
    ELSE Append(m, [key |-> k, val |-> v])

\* the bug of comparing the file with the temp path without resolving it
TargetFileUnresolved(file, tmpResolved, docResolved) ==
    LET resolvedFile == normalizeDiagFile(file, docResolved)
    IN  IF resolvedFile = tmpResolved THEN docResolved ELSE resolvedFile

\* server.ts:142, the key one diagnostic is filed under
TargetFile(file, tmpResolved, docResolved) ==
    LET resolvedFile == normalizeDiagFile(file, docResolved)
    IN  IF Resolve(resolvedFile) = tmpResolved THEN docResolved ELSE resolvedFile

\* server.ts:140-146, the loop over the compiler's diagnostics
RECURSIVE MapLoop(_, _, _, _)
MapLoop(result, diags, tmpResolved, docResolved) ==
    IF diags = <<>> THEN result
    ELSE LET diag       == Head(diags)
             targetFile == TargetFile(diag.file, tmpResolved, docResolved)
             list       == Append(MapGetOrEmpty(result, targetFile), convertDiagnostic(diag))
         IN  MapLoop(MapSet(result, targetFile, list), Tail(diags), tmpResolved, docResolved)

\* the bug of leaving the document out of a result that has nothing for it
DocKeyOmitted(result, docResolved) == result

\* server.ts:148-150, the document's own path is always a key
EnsureDocKey(result, docResolved) ==
    IF ~MapHas(result, docResolved) THEN MapSet(result, docResolved, <<>>) ELSE result

\* a compiler response: JSON null, or an object whose `diagnostics` may be missing
NullResponse == [isNull |-> TRUE, diagnostics |-> <<>>]

Response(diags) == [isNull |-> FALSE, diagnostics |-> <<diags>>]

NoDiagsField == [isNull |-> FALSE, diagnostics |-> <<>>]

\* server.ts:138 throws a TypeError on a null response
MapThrows(response) == response.isNull

NullMessage == <<"Cannot read properties of null (reading 'diagnostics')">>

\* server.ts mapDiagnostics, for a response it does not throw on
mapDiagnostics(response, tmpFile, docPath) ==
    LET tmpResolved == Resolve(tmpFile)
        docResolved == Resolve(docPath)
        diags == IF response.diagnostics = <<>> THEN <<>> ELSE response.diagnostics[1]
    IN  EnsureDocKey(MapLoop(<<>>, diags, tmpResolved, docResolved), docResolved)

(***************************************************************************)
(* The compiler process, as runGatoc observes it: the events the child     *)
(* emits, in order, and the text captured on its two streams.  A text is   *)
(* its body and whether white space surrounds it.                          *)
(***************************************************************************)
Text(pad, body) == [pad |-> pad, body |-> body]

\* String.prototype.trim
Trim(t) == Text(FALSE, t.body)

IsEmptyText(t) == t = Text(FALSE, "")

Proc(events, errMessage, stdout, json, stderr, code) ==
    [events |-> events, errMessage |-> errMessage, stdout |-> stdout,
     json |-> json, stderr |-> stderr, code |-> code]

\* no process: the step did not follow a compiler invocation
NoProc == Proc(<<>>, "", Text(FALSE, ""), NullResponse, Text(FALSE, ""), 0)

Rejected(message) == [ok |-> FALSE, message |-> message, response |-> NullResponse]

Resolved(response) == [ok |-> TRUE, message |-> <<>>, response |-> response]

\* server.ts:226-228, the handler of the child's error event
OnError(proc) == Rejected(<<"failed to run gatoc: ", proc.errMessage>>)

\* the bug of taking a non-zero exit code for a failure of the compiler
OnCloseExitChecked(proc) ==
    IF proc.code # 0 THEN Rejected(<<"gatoc exited with an error">>)
    ELSE IF IsEmptyText(Trim(proc.stdout)) THEN Rejected(<<"gatoc produced no output">>)
    ELSE Resolved(proc.json)

\* server.ts:230-243, the handler of the child's close event
OnClose(proc) ==
    LET trimmed == Trim(proc.stdout)
    IN  IF IsEmptyText(trimmed)
        THEN IF ~IsEmptyText(Trim(proc.stderr))
             THEN Rejected(<<Trim(proc.stderr).body>>)
             ELSE Rejected(<<"gatoc produced no output">>)
        ELSE IF trimmed.body = "json"
             THEN Resolved(proc.json)
             ELSE Rejected(<<"invalid gatoc JSON: ", "Unexpected token">>)

\* server.ts runGatoc: the promise keeps the outcome of the first event that settles it
runGatoc(proc) ==
    IF Head(proc.events) = "error" THEN OnError(proc) ELSE OnClose(proc)

(***************************************************************************)
(* State.                                                                  *)
(***************************************************************************)
VARIABLES
    now,                \* Date.now(), the millisecond clock
    text,               \* per document, the version of its text in the editor
    pendingValidation,  \* server.ts:21, document URI -> timer handle
    timers,             \* the armed timeouts of the event loop
    nTimers,            \* setTimeout calls so far; the next handle is nTimers + 1
    lastFilesByDoc,     \* server.ts:22, document URI -> set of published paths
    runs,               \* the validateDocument calls so far, in order of their start
    fs,                 \* the files on disk the server created: path -> text written
    visible,            \* the editor's diagnostics: resource -> list last published
    outbox,             \* the sendDiagnostics notifications of the latest step
    last                \* the latest step: its operation and the run it belongs to

vars == <<now, text, pendingValidation, timers, nTimers, lastFilesByDoc, runs, fs,
          visible, outbox, last>>

\* the latest step: the handler or continuation that ran (op), the run it
\* belongs to, and what it had in hand: the error caught, the compiler's
\* response with the map made of it, the compiler process the step followed,
\* the outcome of the file operation, and the temp paths of a run that returned
Step(op, r) ==
    [op |-> op, run |-> r, error |-> <<>>, response |-> NullResponse, map |-> <<>>,
     proc |-> NoProc, outcome |-> "", tmpFile |-> NoPath, preferred |-> NoPath,
     fallback |-> NoPath]

InFlight(r) == runs[r].stage # "done"

\* a function without the key k (Map.delete)
Without(f, k) == [x \in DOMAIN f \ {k} |-> f[x]]

\* a function with f[k] = v (Map.set)
With(f, k, v) == [x \in DOMAIN f \cup {k} |-> IF x = k THEN v ELSE f[x]]

Init ==
    /\ now = 0
    /\ text = [d \in Docs |-> 0]
    /\ pendingValidation = <<>>
    /\ timers = {}
    /\ nTimers = 0
    /\ lastFilesByDoc = <<>>
    /\ runs = <<>>
    /\ fs = <<>>
    /\ visible = <<>>
    /\ outbox = <<>>
    /\ last = Step("init", 0)

(***************************************************************************)
(* ValidationScheduler: server.ts:52-85.                                   *)
(***************************************************************************)
Timer(h, d, deadline) == [handle |-> h, doc |-> d, deadline |-> deadline]

\* clearTimeout(h): the timeout leaves the event loop's list and never fires
ClearTimeout(ts, h) == {t \in ts : t.handle # h}

\* the bug of a trigger that clears every armed timeout
ClearEveryTimer(ts, pv, uri) == {}

\* the bug of never calling clearTimeout on the existing handle
KeepExisting(ts, pv, uri) == ts

\* server.ts:66-69 and :79-81, clearTimeout of the entry of uri, if there is one
ClearExisting(ts, pv, uri) ==
    IF uri \in DOMAIN pv THEN ClearTimeout(ts, pv[uri]) ELSE ts

\* server.ts:70-73, setTimeout(..., debounceMs)
SetTimeout(ts, h, d, t) == ts \cup {Timer(h, d, t + debounceMs)}

\* the bug of validateNow clearing the timeout and keeping its entry
NowPendingKept(pv, uri) == pv

\* server.ts:79-83, what validateNow leaves of the pending map
NowPending(pv, uri) == IF uri \in DOMAIN pv THEN Without(pv, uri) ELSE pv

\* the bug of a timer callback that leaves its entry in the map
ExpiryPendingKept(pv, uri) == pv

\* server.ts:71, the timer callback's pendingValidation.delete(uri)
ExpiryPending(pv, uri) == Without(pv, uri)

(***************************************************************************)
(* TempFileWriter and the start of a run: server.ts:87-95, :193-200.       *)
(***************************************************************************)
\* server.ts:195, `.gatolang-lsp-${base}-${process.pid}-${Date.now()}.gw`
TmpName(base, t) ==
    [mark |-> TRUE, base |-> base, pid |-> ProcessPid, ts |-> t, ext |-> ".gw"]

\* server.ts:196-197
PreferredPath(docPath, fileName) == Join(Dirname(docPath), fileName)

\* server.ts:203
FallbackPath(fileName) == Join(TmpDir, fileName)

\* a run that has returned: its locals are gone
DoneRun(d) ==
    [doc |-> d, text |-> 0, docPath |-> NoPath, fileName |-> Seg("", ""),
     tmpFile |-> NoPath, stage |-> "done"]

\* the synchronous part of validateDocument(document), called at clock value t
NewRun(d, t) ==
    LET docPath == uriToPath(DocUri(d))
    IN  IF Falsy(docPath) THEN DoneRun(d)
        ELSE [doc      |-> d,
              text     |-> text[d],
              docPath  |-> docPath,
              fileName |-> TmpName(BaseNoExt(docPath), t),
              tmpFile  |-> NoPath,
              stage    |-> "writePreferred"]

validateDocument(d, origin) ==
    /\ runs' = Append(runs, NewRun(d, now))
    /\ last' = Step(origin, Len(runs) + 1)
    /\ outbox' = <<>>

\* server.ts scheduleValidation
scheduleValidation(d) ==
    LET uri == DocUri(d)
        handle == nTimers + 1
    IN  /\ timers' = SetTimeout(ClearExisting(timers, pendingValidation, uri), handle, d, now)
        /\ pendingValidation' = With(pendingValidation, uri, handle)
        /\ nTimers' = handle

\* server.ts validateNow
validateNow(d, origin) ==
    LET uri == DocUri(d)
    IN  /\ timers' = ClearExisting(timers, pendingValidation, uri)
        /\ pendingValidation' = NowPending(pendingValidation, uri)
        /\ validateDocument(d, origin)

\* server.ts:52-54
DidOpen(d) ==
    /\ validateNow(d, "didOpen")
    /\ UNCHANGED <<now, text, nTimers, lastFilesByDoc, fs, visible>>

\* server.ts:56-58
DidSave(d) ==
    /\ validateNow(d, "didSave")
    /\ UNCHANGED <<now, text, nTimers, lastFilesByDoc, fs, visible>>

\* clock steps after which a timeout set now is due
TicksToFire == (debounceMs + TickMs - 1) \div TickMs

\* server.ts:60-62, after the editor transport has applied the edit; the clock
\* guard leaves the new timeout time to fire before the clock's last value
DidChangeContent(d) ==
    /\ nTimers < MaxTimers
    /\ now + TicksToFire * TickMs <= MaxClock
    /\ text' = [text EXCEPT ![d] = @ + 1]
    /\ scheduleValidation(d)
    /\ last' = Step("didChange", 0)
    /\ outbox' = <<>>
    /\ UNCHANGED <<now, lastFilesByDoc, runs, fs, visible>>

\* server.ts:70-73, the timer callback; a timeout never fires before its delay
TimerExpiry(t) ==
    /\ t \in timers
    /\ now >= t.deadline
    /\ timers' = timers \ {t}
    /\ pendingValidation' = ExpiryPending(pendingValidation, DocUri(t.doc))
    /\ validateDocument(t.doc, "timer")
    /\ UNCHANGED <<now, text, nTimers, lastFilesByDoc, fs, visible>>

\* the clock; it advances by TickMs at a time
Tick ==
    /\ now + TickMs <= MaxClock
    /\ now' = now + TickMs
    /\ last' = Step("tick", 0)
    /\ outbox' = <<>>
    /\ UNCHANGED <<text, pendingValidation, timers, nTimers, lastFilesByDoc, runs, fs, visible>>

(***************************************************************************)
(* The filesystem.  fs.writeFile opens (creating or truncating) and then   *)
(* writes: it succeeds, fails at the open (no file), or fails at the write *)
(* (the file exists, incomplete).  fs.unlink succeeds or fails.            *)
(***************************************************************************)
WriteOutcomes == {"ok", "denied", "partial"}

UnlinkOutcomes == {"ok", "fail"}

\* a disk that refuses a write at the open, or works
TameWrites == {"ok", "denied"}

TameUnlinks == {"ok"}

File(t, whole) == [text |-> t, whole |-> whole]

\* the disk after fs.writeFile(path, t) ended with `outcome`
WriteFile(disk, path, t, outcome) ==
    CASE outcome = "ok"      -> With(disk, path, File(t, TRUE))
      [] outcome = "partial" -> With(disk, path, File(t, FALSE))
      [] OTHER               -> disk

\* the disk after fs.unlink(path) ended with `outcome`
Unlink(disk, path, outcome) ==
    IF outcome = "ok" /\ path \in DOMAIN disk THEN Without(disk, path) ELSE disk

WriteErrorMessage == <<"EACCES: permission denied, open">>

(***************************************************************************)
(* Publication: server.ts:98-122 and :188-191.                             *)
(***************************************************************************)
Notification(uri, diagnostics) == [uri |-> uri, diagnostics |-> diagnostics]

\* server.ts publishDiagnostics
publishDiagnostics(filePath, diagnostics) ==
    Notification(PathToFileURL(filePath), diagnostics)

\* the bug of publishing only the lists that hold a diagnostic
PublishNonEmpty(diagnosticsByFile) ==
    LET held == SelectSeq(diagnosticsByFile, LAMBDA e : e.val # <<>>)
    IN  [i \in 1..Len(held) |-> publishDiagnostics(held[i].key, held[i].val)]

\* server.ts:100-103, one notification per entry of the map, in insertion order
PublishAll(diagnosticsByFile) ==
    [i \in 1..Len(diagnosticsByFile) |->
        publishDiagnostics(diagnosticsByFile[i].key, diagnosticsByFile[i].val)]

\* server.ts:98-103, currentFiles
CurrentFiles(diagnosticsByFile) == MapKeys(diagnosticsByFile)

\* server.ts:105, lastFilesByDoc.get(uri), absent read as no file
PreviousFiles(lfd, uri) == IF uri \in DOMAIN lfd THEN lfd[uri] ELSE {}

\* the bug of clearing nothing
NoStaleFiles(previousFiles, currentFiles) == {}

\* server.ts:107-111, the previously published paths the new result lacks
StaleFiles(previousFiles, currentFiles) == previousFiles \ currentFiles

RECURSIVE SetToSeq(_)
SetToSeq(S) ==
    IF S = {} THEN <<>>
    ELSE LET x == CHOOSE y \in S : TRUE IN <<x>> \o SetToSeq(S \ {x})

\* server.ts:106-112; every notification carries the empty list, so the
\* order among them does not show
ClearAll(stale) ==
    LET paths == SetToSeq(stale)
    IN  [i \in 1..Len(paths) |-> publishDiagnostics(paths[i], <<>>)]

\* the bug of storing an empty set whatever was published
StoreNone(lfd, uri, currentFiles) == With(lfd, uri, {})

\* server.ts:114
StoreFiles(lfd, uri, currentFiles) == With(lfd, uri, currentFiles)

\* server.ts:117-121
SyntheticDiagnostic(message) ==
    [range |-> DefaultRange, severity |-> "Error", message |-> message, code |-> <<>>]

\* the bug of a failure that forgets what the document's runs published
FailedFilesForgotten(lfd, uri) == Without(lfd, uri)

\* server.ts:115-122, the catch block does not touch lastFilesByDoc
FailedFiles(lfd, uri) == lfd

\* the bug of publishing the failure the way results are published, by path
FailureByPath(uri, message) ==
    <<publishDiagnostics(uriToPath(uri), <<SyntheticDiagnostic(message)>>)>>

\* server.ts:122, the catch block's notification
FailureNotifications(uri, message) ==
    <<Notification(uri, <<SyntheticDiagnostic(message)>>)>>

\* server.ts:97-112, the notifications of a run whose compiler result was mapped
SuccessNotifications(lfd, uri, diagnosticsByFile) ==
    PublishAll(diagnosticsByFile)
        \o ClearAll(StaleFiles(PreviousFiles(lfd, uri), CurrentFiles(diagnosticsByFile)))

\* the editor replaces what it shows for the resource of each notification
RECURSIVE Deliver(_, _)
Deliver(shown, notes) ==
    IF notes = <<>> THEN shown
    ELSE Deliver(With(shown, ClientKey(Head(notes).uri), Head(notes).diagnostics), Tail(notes))

Shown(key) == IF key \in DOMAIN visible THEN visible[key] ELSE <<>>

\* the catch block: one synthetic diagnostic, the published sets untouched
Fail(r, message, proc) ==
    /\ outbox' = FailureNotifications(DocUri(runs[r].doc), message)
    /\ visible' = Deliver(visible, outbox')
    /\ last' = [Step("failed", r) EXCEPT
                    !.error = message,
                    !.proc = proc,
                    !.preferred = PreferredPath(runs[r].docPath, runs[r].fileName),
                    !.fallback = FallbackPath(runs[r].fileName)]
    /\ lastFilesByDoc' = FailedFiles(lastFilesByDoc, DocUri(runs[r].doc))

\* server.ts:97-114
Succeed(r, response, proc) ==
    LET uri == DocUri(runs[r].doc)
        diagnosticsByFile == mapDiagnostics(response, runs[r].tmpFile, runs[r].docPath)
    IN  /\ outbox' = SuccessNotifications(lastFilesByDoc, uri, diagnosticsByFile)
        /\ visible' = Deliver(visible, outbox')
        /\ lastFilesByDoc' = StoreFiles(lastFilesByDoc, uri, CurrentFiles(diagnosticsByFile))
        /\ last' = [Step("published", r) EXCEPT
                        !.response = response, !.map = diagnosticsByFile, !.proc = proc]

RunIds == 1..Len(runs)

SetStage(r, stage, tmpFile) ==
    runs' = [runs EXCEPT ![r] =
                IF stage = "done" THEN DoneRun(@.doc)
                ELSE [@ EXCEPT !.stage = stage, !.tmpFile = tmpFile]]

Quiet(op, r) ==
    /\ outbox' = <<>>
    /\ last' = Step(op, r)
    /\ UNCHANGED <<lastFilesByDoc, visible>>

\* server.ts:199-203, fs.writeFile(preferredPath) settles
WritePreferredDone(r, outcome) ==
    LET preferredPath == PreferredPath(runs[r].docPath, runs[r].fileName)
    IN  /\ runs[r].stage = "writePreferred"
        /\ fs' = WriteFile(fs, preferredPath, runs[r].text, outcome)
        /\ IF outcome = "ok"
           THEN SetStage(r, "gatoc", preferredPath)
           ELSE SetStage(r, "writeFallback", NoPath)
        /\ Quiet("write", r)
        /\ UNCHANGED <<now, text, pendingValidation, timers, nTimers>>

\* server.ts:203-205, fs.writeFile(fallbackPath) settles; its failure is the run's
WriteFallbackDone(r, outcome) ==
    LET fallbackPath == FallbackPath(runs[r].fileName)
    IN  /\ runs[r].stage = "writeFallback"
        /\ fs' = WriteFile(fs, fallbackPath, runs[r].text, outcome)
        /\ IF outcome = "ok"
           THEN SetStage(r, "gatoc", fallbackPath) /\ Quiet("write", r)
           ELSE SetStage(r, "done", NoPath) /\ Fail(r, WriteErrorMessage, NoProc)
        /\ UNCHANGED <<now, text, pendingValidation, timers, nTimers>>

(***************************************************************************)
(* What the compiler may answer for a run.  gatoc is a black box: any      *)
(* output is possible, here bounded to a few file references and payloads. *)
(***************************************************************************)
\* the same file spelled with a "." segment before its name
Dotted(p) == AbsPath(Front(p.segs) \o <<Dot, Last(p.segs)>>)

\* the name alone, relative
NameOnly(p) == RelPath(<<Last(p.segs)>>)

FileRefs(tmpFile, docPath) ==
    {NoPath, UnknownFile, tmpFile, NameOnly(tmpFile), Dotted(tmpFile), Dotted(docPath),
     SharedFile, NameOnly(SharedFile), Dotted(SharedFile)}

GatocDiagnostic(file, severity, message, code, range) ==
    [file |-> file, severity |-> severity, message |-> message, code |-> code,
     range |-> range]

\* the i-th diagnostic of a response: odd ones are errors with a range, even
\* ones warnings with a code and no range, and the message tells the position
NthDiagnostic(i, file) ==
    IF i % 2 = 1
    THEN GatocDiagnostic(file, "error", <<"unexpected token", i>>, <<>>, <<Range(0, 4, 0, 9)>>)
    ELSE GatocDiagnostic(file, "warning", <<"unused", i>>, <<"W1">>, <<>>)

SeqsUpTo(S, n) == UNION {[1..k -> S] : k \in 0..n}

DiagnosticsOn(files) == [i \in 1..Len(files) |-> NthDiagnostic(i, files[i])]

\* every response of at most MaxDiags diagnostics on the file references
Responses(tmpFile, docPath) ==
    {NullResponse, NoDiagsField}
    \cup {Response(DiagnosticsOn(files)) :
            files \in SeqsUpTo(FileRefs(tmpFile, docPath), MaxDiags)}

NoText == Text(FALSE, "")

\* the exit codes of a compiler that ran: success, or errors found
ExitCodes == {0, 1}

\* the executable is missing: an error event, then close with the errno as code
SpawnFailure ==
    Proc(<<"error", "close">>, "spawn gatoc ENOENT", NoText, NullResponse, NoText, -2)

AnswerWith(json, code) == Proc(<<"close">>, "", Text(TRUE, "json"), json, NoText, code)

\* a compiler that exits with 1 exactly when it reports a diagnostic
Answer(json) ==
    AnswerWith(json, IF json.diagnostics = <<>> \/ json.diagnostics[1] = <<>> THEN 0 ELSE 1)

\* every way the compiler process may end, for the publication-centred runs
Procs(tmpFile, docPath) ==
    {SpawnFailure}
    \cup {Proc(<<"close">>, "", out, NullResponse, err, code) :
            out \in {NoText, Text(TRUE, ""), Text(FALSE, "garbage")},
            err \in {NoText, Text(TRUE, ""), Text(TRUE, "boom")},
            code \in ExitCodes}
    \cup {AnswerWith(json, code) : json \in Responses(tmpFile, docPath), code \in ExitCodes}

\* a few ways, for the scheduling-centred runs: a failed spawn, a clean
\* compile, one diagnostic on the snapshot
BasicProcs(tmpFile, docPath) ==
    {SpawnFailure, Answer(Response(<<>>)), Answer(Response(DiagnosticsOn(<<tmpFile>>)))}

\* a few ways, for documents that import SharedFile: a failed spawn, a clean
\* compile, a diagnostic on the imported file, one on the snapshot as well
SharedProcs(tmpFile, docPath) ==
    {SpawnFailure, Answer(Response(<<>>)), Answer(Response(DiagnosticsOn(<<SharedFile>>))),
     Answer(Response(DiagnosticsOn(<<tmpFile, SharedFile>>)))}

(***************************************************************************)
(* The rest of a run: server.ts:96-131.                                    *)
(***************************************************************************)
\* server.ts:96-122, the promise of runGatoc settles; mapping and publication
\* follow without an await
GatocExit(r, proc) ==
    LET outcome == runGatoc(proc)
    IN  /\ runs[r].stage = "gatoc"
        /\ SetStage(r, "unlink", runs[r].tmpFile)
        /\ IF ~outcome.ok THEN Fail(r, outcome.message, proc)
           ELSE IF MapThrows(outcome.response) THEN Fail(r, NullMessage, proc)
           ELSE Succeed(r, outcome.response, proc)
        /\ UNCHANGED <<now, text, pendingValidation, timers, nTimers, fs>>

\* the bug of reporting a failed cleanup like a failed run
CleanupReported(uri, outcome) ==
    IF outcome = "fail"
    THEN <<Notification(uri, <<SyntheticDiagnostic(<<"EBUSY: resource busy or locked, unlink">>)>>)>>
    ELSE <<>>

\* server.ts:125-129, the empty catch around fs.unlink: nothing is sent
CleanupNotifications(uri, outcome) == <<>>

\* server.ts:123-130, fs.unlink(tmpFile) settles; its failure is swallowed
UnlinkDone(r, outcome) ==
    /\ runs[r].stage = "unlink"
    /\ fs' = Unlink(fs, runs[r].tmpFile, outcome)
    /\ SetStage(r, "done", runs[r].tmpFile)
    /\ outbox' = CleanupNotifications(DocUri(runs[r].doc), outcome)
    /\ last' = [Step("unlink", r) EXCEPT
                    !.outcome = outcome,
                    !.tmpFile = runs[r].tmpFile,
                    !.preferred = PreferredPath(runs[r].docPath, runs[r].fileName),
                    !.fallback = FallbackPath(runs[r].fileName)]
    /\ visible' = Deliver(visible, outbox')
    /\ UNCHANGED <<now, text, pendingValidation, timers, nTimers, lastFilesByDoc>>

\* a trigger for document d is explored while fewer than cap runs would exist
\* once the run it starts, or the timers it leaves armed, have started theirs
RoomFor(cap, d) ==
    Len(runs) + Cardinality(ClearExisting(timers, pendingValidation, DocUri(d))) < cap

Next ==
    \/ \E d \in SchedDocs : RoomFor(MaxRuns, d) /\ DidOpen(d)
    \/ \E d \in SchedDocs : RoomFor(MaxRuns, d) /\ DidSave(d)
    \/ \E d \in SchedDocs : RoomFor(MaxRuns, d) /\ DidChangeContent(d)
    \/ \E t \in timers : TimerExpiry(t)
    \/ Tick
    \/ \E r \in RunIds, outcome \in TameWrites : WritePreferredDone(r, outcome)
    \/ \E r \in RunIds, outcome \in TameWrites : WriteFallbackDone(r, outcome)
    \/ \E r \in {x \in RunIds : runs[x].stage = "gatoc"} :
          \E proc \in BasicProcs(runs[r].tmpFile, runs[r].docPath) : GatocExit(r, proc)
    \/ \E r \in RunIds, outcome \in TameUnlinks : UnlinkDone(r, outcome)

\* scheduling-centred: every event, the clock and the timers, for a file and an
\* untitled buffer; the compiler answers in a few ways and the disk is tame
Spec == Init /\ [][Next]_vars

NextPub ==
    \/ \E d \in PubDocs : RoomFor(MaxPubRuns, d) /\ DidOpen(d)
    \/ \E d \in PubDocs : RoomFor(MaxPubRuns, d) /\ DidSave(d)
    \/ \E r \in RunIds, outcome \in TameWrites : WritePreferredDone(r, outcome)
    \/ \E r \in RunIds, outcome \in TameWrites : WriteFallbackDone(r, outcome)
    \/ \E r \in {x \in RunIds : runs[x].stage = "gatoc"} :
          \E proc \in Procs(runs[r].tmpFile, runs[r].docPath) : GatocExit(r, proc)
    \/ \E r \in RunIds, outcome \in TameUnlinks : UnlinkDone(r, outcome)

\* publication-centred: immediate runs of a file, the compiler answering in
\* every way; the disk is tame
PubSpec == Init /\ [][NextPub]_vars

NextDisk ==
    \/ \E d \in DiskDocs : RoomFor(MaxDiskRuns, d) /\ DidOpen(d)
    \/ \E d \in DiskDocs : RoomFor(MaxDiskRuns, d) /\ DidSave(d)
    \/ Tick
    \/ \E r \in RunIds, outcome \in WriteOutcomes : WritePreferredDone(r, outcome)
    \/ \E r \in RunIds, outcome \in WriteOutcomes : WriteFallbackDone(r, outcome)
    \/ \E r \in {x \in RunIds : runs[x].stage = "gatoc"} :
          \E proc \in BasicProcs(runs[r].tmpFile, runs[r].docPath) : GatocExit(r, proc)
    \/ \E r \in RunIds, outcome \in UnlinkOutcomes : UnlinkDone(r, outcome)

\* disk-centred: immediate runs of two files while the clock runs, every
\* outcome of a write and of an unlink; the compiler answers in a few ways
DiskSpec == Init /\ [][NextDisk]_vars

\* no validateDocument call is between its first await and its return
Idle == \A r \in RunIds : ~InFlight(r)

NextSeq ==
    \/ \E d \in SeqDocs : Idle /\ RoomFor(MaxSeqRuns, d) /\ DidOpen(d)
    \/ \E d \in SeqDocs : Idle /\ RoomFor(MaxSeqRuns, d) /\ DidSave(d)
    \/ \E d \in SeqDocs : Idle /\ RoomFor(MaxSeqRuns, d) /\ DidChangeContent(d)
    \/ \E t \in timers : Idle /\ TimerExpiry(t)
    \/ Tick
    \/ \E r \in RunIds, outcome \in TameWrites : WritePreferredDone(r, outcome)
    \/ \E r \in RunIds, outcome \in TameWrites : WriteFallbackDone(r, outcome)
    \/ \E r \in {x \in RunIds : runs[x].stage = "gatoc"} :
          \E proc \in SharedProcs(runs[r].tmpFile, runs[r].docPath) : GatocExit(r, proc)
    \/ \E r \in RunIds, outcome \in TameUnlinks : UnlinkDone(r, outcome)

\* one run at a time: two files that import a third are edited, opened and
\* saved while no run is in flight; the disk is tame
SeqSpec == Init /\ [][NextSeq]_vars

\* the event loop runs a due timer's callback and the clock goes on
FairSpec == Spec /\ WF_vars(\E t \in timers : TimerExpiry(t)) /\ WF_vars(Tick)

(***************************************************************************)
(* Properties.                                                             *)
(***************************************************************************)
ArmedFor(d) == {t \in timers : t.doc = d}

HasEntry(d) == DocUri(d) \in DOMAIN pendingValidation

StartedNow == Len(runs)

\* the step appends exactly one run, of document d, and it reads d's current text
StartsOneRunOf(d) ==
    /\ Len(runs') = Len(runs) + 1
    /\ SubSeq(runs', 1, Len(runs)) = runs
    /\ runs'[Len(runs')].doc = d
    /\ runs'[Len(runs')].stage # "done" => runs'[Len(runs')].text = text[d]

\* a call of scheduleValidation starts no run and leaves the document one
\* timer, due debounceMs later; the text changes in no other step
C1_Coalesce ==
    \A d \in Docs :
        /\ text'[d] # text[d] =>
              /\ last'.op = "didChange"
              /\ runs' = runs
              /\ Cardinality(ArmedFor(d)') = 1
              /\ \A t \in ArmedFor(d)' : t.deadline = now + debounceMs
        /\ last'.op = "didChange" => runs' = runs

\* a timer callback runs only for a pending entry whose delay has passed,
\* starts exactly one run, on the current text, and leaves no timer behind
C1_OneRun ==
    last'.op = "timer" =>
        \E d \in Docs :
            /\ HasEntry(d) /\ ~HasEntry(d)'
            /\ \E t \in ArmedFor(d) : t.deadline <= now
            /\ \A t \in ArmedFor(d) : t.deadline <= now
            /\ ArmedFor(d)' = {}
            /\ StartsOneRunOf(d)

\* a pending entry is not dropped without a run of its document starting
C1_NotZero ==
    \A d \in Docs : HasEntry(d) /\ ~HasEntry(d)' => StartsOneRunOf(d)

\* C1: N >= 1 calls of scheduleValidation for a document, each less than
\* debounceMs after the one before and with no open or save between them,
\* lead to exactly one validation run of that document, and the run reads the
\* text current at the last call: every call replaces the timer and starts
\* no run, the pending entry always gives way to a run, and the timer
\* callback starts one run on the current text and leaves no timer.
C1_DebounceCoalesces ==
    /\ [][C1_Coalesce /\ C1_OneRun /\ C1_NotZero]_vars
    /\ \A d \in SchedDocs : HasEntry(d) ~> ~HasEntry(d)

\* two calls for D1 were coalesced into the one run that now starts
C1_Witness ==
    /\ last.op = "timer"
    /\ text["D1"] = 2
    /\ Len(runs) = 1
    /\ runs[1].doc = "D1" /\ runs[1].text = 2 /\ runs[1].stage = "writePreferred"

\* C2: right after the handler of an open or save event, the run it started is
\* the newest one, in flight on the document's current text, and the
\* document's URI has neither a pending entry nor an armed timer, so that a
\* change made before the event starts no delayed run.
C2_ImmediateCancelsPending ==
    last.op \in {"didOpen", "didSave"} =>
        LET r == last.run
            d == runs[r].doc
        IN  /\ r = Len(runs)
            /\ uriToPath(DocUri(d)) # NoPath =>
                  runs[r].stage = "writePreferred" /\ runs[r].text = text[d]
            /\ ~HasEntry(d)
            /\ ArmedFor(d) = {}

\* a change of D1 followed by its save before the delay has passed
C2_Witness ==
    /\ last.op = "didSave"
    /\ text["D1"] = 1
    /\ now < debounceMs
    /\ Len(runs) = 1 /\ runs[1].doc = "D1"
    /\ timers = {}

\* C3: every document URI has at most one armed timer, and pendingValidation
\* has an entry for the URI exactly when it has one, the entry being that
\* timer's handle; so the callback of a timer removes its own entry only.
C3_OneTimerPerUri ==
    \A d \in Docs :
        /\ Cardinality(ArmedFor(d)) <= 1
        /\ HasEntry(d) <=> ArmedFor(d) # {}
        /\ HasEntry(d) => \A t \in ArmedFor(d) : t.handle = pendingValidation[DocUri(d)]

\* the second timer of D1 has replaced the first
C3_Witness ==
    /\ text["D1"] = 2
    /\ HasEntry("D1")
    /\ pendingValidation[DocUri("D1")] = 2
    /\ Cardinality(timers) = 1

RunDoc(r) == runs[r].doc

OwnKey(d) == ClientKey(DocUri(d))

\* the notifications of the latest step that the editor files under key
NotesFor(notes, key) == SelectSeq(notes, LAMBDA n : ClientKey(n.uri) = key)

InSeq(x, seq) == \E i \in 1..Len(seq) : seq[i] = x

\* the latest step was the publication of a compiler result
Published == last.op = "published"

ResponseDiags == IF last.response.diagnostics = <<>> THEN <<>> ELSE last.response.diagnostics[1]

\* C4: when a run publishes a compiler result, every path that the document's
\* stored set held and the new result lacks gets a notification with the
\* empty list in that step, and the stored set becomes the new result's paths.
C4_Step ==
    last'.op = "published" =>
        LET uri == DocUri(RunDoc(last'.run))
            P1  == IF uri \in DOMAIN lastFilesByDoc THEN lastFilesByDoc[uri] ELSE {}
            P2  == {last'.map[i].key : i \in 1..Len(last'.map)}
        IN  /\ \A p \in P1 \ P2 : InSeq(Notification(PathToFileURL(p), <<>>), outbox')
            /\ uri \in DOMAIN lastFilesByDoc'
            /\ lastFilesByDoc'[uri] = P2

C4_StaleCleared == [][C4_Step]_vars

\* a result was published that lacks a path of the result before it
C4_Witness ==
    /\ Published
    /\ Len(outbox) > Len(last.map)
    /\ outbox[Len(outbox)].diagnostics = <<>>

\* C5: a run that fails sends exactly one notification, for the document's
\* own URI, holding exactly one diagnostic: severity Error, range
\* (0,0)-(0,1), the failure's description as its message.
C5_FailureDiagnostic ==
    last.op = "failed" =>
        outbox = <<[uri |-> DocUri(RunDoc(last.run)),
                    diagnostics |-> <<[range |-> Range(0, 0, 0, 1), severity |-> "Error",
                                       message |-> last.error, code |-> <<>>]>>]>>

\* the compiler executable is missing
C5_Witness ==
    /\ last.op = "failed"
    /\ last.error = <<"failed to run gatoc: ", "spawn gatoc ENOENT">>
    /\ Len(outbox) = 1

\* C6: what the editor shows on a document's own path changes only when a
\* run of some document completes, and a completing run leaves there what it
\* published for it last; so once all runs of the document have completed,
\* the one that completed last decides, whatever the order of their starts.
C6_Step ==
    /\ last'.op \in {"published", "failed"} =>
          LET key  == OwnKey(RunDoc(last'.run))
              mine == NotesFor(outbox', key)
          IN  /\ mine # <<>>
              /\ key \in DOMAIN visible'
              /\ visible'[key] = mine[Len(mine)].diagnostics
    /\ last'.op \notin {"published", "failed"} => visible' = visible

C6_LastCompletedWins == [][C6_Step]_vars

\* of two runs of one document in flight together, the one started first
\* completes last and its diagnostic is what shows
C6_Witness ==
    /\ Published
    /\ last.run = 1
    /\ Len(runs) = 2
    /\ runs[2].stage = "done"
    /\ RunDoc(1) = RunDoc(2)
    /\ Shown(OwnKey(RunDoc(1))) = last.map[1].val
    /\ last.map[1].val # <<>>

\* what the file reference of a compiler diagnostic names, for a document at doc
RefersTo(file, doc) ==
    IF file = NoPath \/ file = UnknownFile THEN Resolve(doc)
    ELSE IF file.abs THEN Resolve(file)
    ELSE Resolve2(Dirname(Resolve(doc)), file)

\* some notification of the result carries diagnostic dg under uri
PublishedUnder(dg, uri) ==
    \E i \in 1..Len(outbox) : outbox[i].uri = uri /\ InSeq(dg, outbox[i].diagnostics)

\* C9: in a published result, a diagnostic whose file reference resolves to
\* the run's temp path is published under the document's path, no
\* notification carries a diagnostic under the temp path, and a diagnostic on
\* an absolute path of another file is published under that path, unchanged.
C9_TempRemappedToDoc ==
    Published =>
        LET tmp == runs[last.run].tmpFile
            doc == runs[last.run].docPath
        IN  /\ \A i \in 1..Len(ResponseDiags) :
                  LET dg   == ResponseDiags[i]
                      file == dg.file
                      out  == [range |-> IF dg.range = <<>> THEN Range(0, 0, 0, 1) ELSE dg.range[1],
                               severity |-> IF dg.severity = "warning" THEN "Warning" ELSE "Error",
                               message |-> dg.message, code |-> dg.code]
                  IN  /\ RefersTo(file, doc) = Resolve(tmp) =>
                            PublishedUnder(out, PathToFileURL(doc))
                      /\ file.abs /\ RefersTo(file, doc) \notin {Resolve(tmp), Resolve(doc)} =>
                            /\ \E k \in 1..Len(last.map) : last.map[k].key = file
                            /\ PublishedUnder(out, PathToFileURL(file))
            /\ \A i \in 1..Len(outbox) :
                  outbox[i].uri = PathToFileURL(tmp) => outbox[i].diagnostics = <<>>
            /\ \A k \in 1..Len(last.map) : Resolve(last.map[k].key) # Resolve(tmp)

\* a result with one diagnostic on a spelling of the temp path and one on
\* another file
C9_Witness ==
    /\ Published
    /\ Len(ResponseDiags) = 2
    /\ ResponseDiags[1].file = Dotted(runs[last.run].tmpFile)
    /\ ResponseDiags[2].file = Dotted(SharedFile)

\* C10: a published result always has a list for the document's own resolved
\* path and sends it; when no diagnostic of the response names the document
\* or the temp file, that list is empty and the editor shows nothing on the
\* document after the step.
C10_DocAlwaysPublished ==
    Published =>
        LET tmp == runs[last.run].tmpFile
            doc == runs[last.run].docPath
            own == {k \in 1..Len(last.map) : last.map[k].key = Resolve(doc)}
        IN  /\ own # {}
            /\ \A k \in own :
                  InSeq(Notification(PathToFileURL(Resolve(doc)), last.map[k].val), outbox)
            /\ (\A i \in 1..Len(ResponseDiags) :
                    RefersTo(ResponseDiags[i].file, doc) \notin {Resolve(tmp), Resolve(doc)})
               => /\ \A k \in own : last.map[k].val = <<>>
                  /\ OwnKey(RunDoc(last.run)) \in DOMAIN visible
                  /\ visible[OwnKey(RunDoc(last.run))] = <<>>

\* the second run of a document reports on another file only
C10_Witness ==
    /\ Published
    /\ last.run = 2
    /\ runs[1].stage = "done"
    /\ Len(ResponseDiags) = 1
    /\ ResponseDiags[1].file = SharedFile
    /\ Shown(OwnKey(RunDoc(2))) = <<>>

\* the path a run in flight is writing, or has written and will unlink
UsedPath(r) ==
    CASE runs[r].stage = "writePreferred" -> PreferredPath(runs[r].docPath, runs[r].fileName)
      [] runs[r].stage = "writeFallback"  -> FallbackPath(runs[r].fileName)
      [] OTHER                            -> runs[r].tmpFile

\* C7: no two runs in flight at the same time use the same temp file path.
C7_TempPathsDistinct ==
    \A r1, r2 \in RunIds :
        r1 < r2 /\ InFlight(r1) /\ InFlight(r2) => UsedPath(r1) # UsedPath(r2)

\* C8: when a run has returned, its unlink (if it made one) having succeeded,
\* no file exists at the temp path it used nor at the preferred and fallback
\* locations writeTempFile wrote to.
C8_TempFilesRemoved ==
    \/ last.op = "unlink" /\ last.outcome = "ok"
    \/ last.op = "failed" /\ runs[last.run].stage = "done"
    => /\ last.tmpFile \notin DOMAIN fs
       /\ last.preferred \notin DOMAIN fs
       /\ last.fallback \notin DOMAIN fs

\* C11: once a run has published a compiler result, a second run of the same
\* document on the same text, its compiler returning the same output, leaves
\* what the editor shows on every path and the document's stored set as the
\* first run left them.  The second run maps the same output to the same map
\* and publishes it from the state the first run left.
C11_Idempotent ==
    Published =>
        LET uri    == DocUri(RunDoc(last.run))
            second == SuccessNotifications(lastFilesByDoc, uri, last.map)
        IN  /\ \A key \in DOMAIN visible : Deliver(visible, second)[key] = visible[key]
            /\ StoreFiles(lastFilesByDoc, uri, CurrentFiles(last.map)) = lastFilesByDoc

\* C12: the outcome of a compiler invocation is fixed by whether the spawn
\* failed and by the captured stdout and stderr, whatever the exit code: the
\* spawn error when the spawn failed, even though a close event follows;
\* else, stdout being white space only, a failure whose message is the
\* trimmed stderr or, that being empty too, "gatoc produced no output"; else
\* an invalid-JSON failure when stdout does not parse; else the parsed value,
\* which the run maps and publishes (a JSON null fails in the mapping).
C12_GatocOutcome ==
    last.proc # NoProc =>
        LET p == last.proc
        IN  /\ last.op \in {"published", "failed"}
            /\ IF p.events[1] = "error"
               THEN /\ last.op = "failed"
                    /\ last.error = <<"failed to run gatoc: ", p.errMessage>>
               ELSE IF p.stdout.body = ""
               THEN /\ last.op = "failed"
                    /\ last.error = IF p.stderr.body # "" THEN <<p.stderr.body>>
                                    ELSE <<"gatoc produced no output">>
               ELSE IF p.stdout.body # "json"
               THEN /\ last.op = "failed"
                    /\ Len(last.error) = 2 /\ last.error[1] = "invalid gatoc JSON: "
               ELSE IF p.json.isNull
               THEN last.op = "failed" /\ last.error = NullMessage
               ELSE last.op = "published" /\ last.response = p.json

\* the compiler found an error, said so on stdout and exited with 1
C12_Witness ==
    /\ Published
    /\ last.proc.code = 1
    /\ Len(ResponseDiags) = 1
    /\ last.proc.events = <<"close">>

\* the notifications a published map M gives rise to when the document's
\* stored set is prev: one per entry, in order, then the empty list for every
\* stored path that M lacks
PublishesAgainst(notes, M, prev) ==
    LET keys == {M[i].key : i \in 1..Len(M)}
    IN  /\ Len(notes) = Len(M) + Cardinality(prev \ keys)
        /\ \A i \in 1..Len(M) : notes[i] = Notification(PathToFileURL(M[i].key), M[i].val)
        /\ \A q \in prev \ keys : InSeq(Notification(PathToFileURL(q), <<>>), notes)

\* C13: a failing run leaves pendingValidation and every document's stored
\* set as they were, and only a publishing run changes a stored set; every
\* open, save and timer callback starts a run, whatever failed before; and a
\* publishing run sends its map and clears against the set stored by the last
\* publishing run of its document, as if no run had failed in between.
C13_Step ==
    /\ last'.op = "failed" =>
          /\ pendingValidation' = pendingValidation
          /\ lastFilesByDoc' = lastFilesByDoc
    /\ lastFilesByDoc' # lastFilesByDoc => last'.op = "published"
    /\ last'.op \in {"didOpen", "didSave", "timer"} =>
          /\ Len(runs') = Len(runs) + 1
          /\ last'.run = Len(runs')
          /\ runs'[Len(runs')].stage = "writePreferred"
    /\ last'.op = "published" =>
          LET r   == last'.run
              uri == DocUri(RunDoc(r))
          IN  /\ last'.map = mapDiagnostics(last'.response, runs[r].tmpFile, runs[r].docPath)
              /\ PublishesAgainst(outbox', last'.map,
                                  IF uri \in DOMAIN lastFilesByDoc
                                  THEN lastFilesByDoc[uri] ELSE {})

C13_FailureIsolated == [][C13_Step]_vars

\* D1 published a diagnostic on the shared file, a run of D2 failed, and the
\* third run, of D1, clears the shared file
C13_Witness ==
    /\ Published
    /\ last.run = 3
    /\ RunDoc(3) = "D1"
    /\ Shown(OwnKey("D2")) = <<SyntheticDiagnostic(<<"failed to run gatoc: ", "spawn gatoc ENOENT">>)>>
    /\ DocUri("D2") \notin DOMAIN lastFilesByDoc
    /\ InSeq(Notification(PathToFileURL(SharedFile), <<>>), outbox)

\* C14: the step in which a run's unlink fails sends nothing, leaves what
\* the editor shows, the stored sets and the disk as they are, and ends the
\* run; a run that has returned takes no further step, so the unlink is not
\* tried again; and an open or save starts a run whatever was left on disk.
C14_Step ==
    /\ last'.op = "unlink" =>
          /\ runs[last'.run].stage = "unlink"
          /\ runs'[last'.run].stage = "done"
    /\ last'.op = "unlink" /\ last'.outcome = "fail" =>
          /\ outbox' = <<>>
          /\ visible' = visible
          /\ lastFilesByDoc' = lastFilesByDoc
          /\ pendingValidation' = pendingValidation
          /\ fs' = fs
    /\ \A r \in RunIds : runs[r].stage = "done" => runs'[r] = runs[r]
    /\ last'.op \in {"didOpen", "didSave"} =>
          /\ Len(runs') = Len(runs) + 1
          /\ runs'[Len(runs')].stage = "writePreferred"

C14_CleanupFailureSwallowed == [][C14_Step]_vars

\* the first run has returned leaving its temp file, whole, on disk, what it
\* published still shows, and a second run has started
C14_Witness ==
    /\ last.op \in {"didOpen", "didSave"}
    /\ last.run = 2
    /\ runs[1].stage = "done"
    /\ \E q \in DOMAIN fs : fs[q].whole
    /\ RunDoc(1) = RunDoc(2)
    /\ Shown(OwnKey(RunDoc(1))) # <<>>

\* the order of the stages of a run
StageRank(stage) ==
    CASE stage = "writePreferred" -> 1
      [] stage = "writeFallback"  -> 2
      [] stage = "gatoc"          -> 3
      [] stage = "unlink"         -> 4
      [] OTHER                    -> 5

\* the steps of the event handlers and of the clock
EventOps == {"didOpen", "didSave", "didChange", "timer", "tick"}

\* C15: a change, open, save or timer callback leaves every run already
\* started exactly as it is, and cancels no timer but the one armed for its
\* own URI; a run only moves forward through its stages, one run per step;
\* and the step in which a run's compiler process exits is that run's one
\* publication step: it sends the result or the synthetic error, and the run
\* never waits for the compiler again.
C15_Step ==
    /\ last'.op \in EventOps =>
          /\ SubSeq(runs', 1, Len(runs)) = runs
          /\ last'.op # "tick" =>
                LET d == IF last'.op = "didChange"
                         THEN CHOOSE x \in Docs : text'[x] # text[x]
                         ELSE runs'[last'.run].doc
                IN  \A t \in timers : t.doc # d => t \in timers'
    /\ \A r \in RunIds :
          /\ StageRank(runs'[r].stage) >= StageRank(runs[r].stage)
          /\ runs'[r] # runs[r] => last'.run = r /\ last'.op \notin EventOps
          /\ runs[r].stage = "gatoc" /\ runs'[r].stage # "gatoc" =>
                /\ last'.op \in {"published", "failed"}
                /\ outbox' # <<>>
                /\ runs'[r].stage = "unlink"
          /\ last'.run = r /\ last'.op = "published" => runs[r].stage = "gatoc"
          /\ last'.run = r /\ last'.op = "failed" => runs[r].stage \in {"gatoc", "writeFallback"}

C15_StartedRunsFinish == [][C15_Step]_vars

\* while the first run waits for its compiler the document is changed and
\* saved; the first run then publishes
C15_Witness ==
    /\ last.op \in {"published", "failed"}
    /\ last.run = 1
    /\ Len(runs) = 2
    /\ RunDoc(1) = RunDoc(2)
    /\ text[RunDoc(1)] = 1
    /\ InFlight(2)

\* C16: a run of one document leaves the other documents' pending timers and
\* stored sets as they are, and when its result does not mention a file that
\* another document's latest publishing run reported (a file of that
\* document's stored set, other than the running document itself), what the
\* editor shows on that file stays as it is.
C16_Step ==
    last'.op \in {"published", "failed"} =>
        LET A    == RunDoc(last'.run)
            keys == {last'.map[i].key : i \in 1..Len(last'.map)}
        IN  \A B \in Docs \ {A} :
                LET uri == DocUri(B)
                IN  /\ uri \in DOMAIN pendingValidation =>
                          /\ uri \in DOMAIN pendingValidation'
                          /\ pendingValidation'[uri] = pendingValidation[uri]
                    /\ uri \in DOMAIN lastFilesByDoc =>
                          /\ uri \in DOMAIN lastFilesByDoc'
                          /\ lastFilesByDoc'[uri] = lastFilesByDoc[uri]
                          /\ \A F \in lastFilesByDoc[uri] :
                                F \notin keys /\ Resolve(F) # Resolve(uriToPath(DocUri(A))) =>
                                    LET key == ClientKey(PathToFileURL(F))
                                    IN  /\ key \in DOMAIN visible'
                                        /\ visible'[key] = visible[key]

C16_DocumentsIndependent == [][C16_Step]_vars

\* the file a diagnostic of the latest result belongs to: what its reference
\* names, the temp file standing for the document
GroupOf(file) ==
    LET tmp == runs[last.run].tmpFile
        doc == runs[last.run].docPath
    IN  IF RefersTo(file, doc) = Resolve(tmp) THEN Resolve(doc) ELSE RefersTo(file, doc)

\* C17: in a published result no two lists belong to one file, every list
\* holds, in the compiler's order, all the diagnostics whose reference
\* resolves to its file, and no two of the result's notifications carry the
\* same URI.
C17_GroupedByFile ==
    Published =>
        /\ \A i, j \in 1..Len(last.map) :
              Resolve(last.map[i].key) = Resolve(last.map[j].key) => i = j
        /\ \A i \in 1..Len(last.map) :
              LET mine == SelectSeq(ResponseDiags,
                                    LAMBDA dg : GroupOf(dg.file) = Resolve(last.map[i].key))
              IN  last.map[i].val = [n \in 1..Len(mine) |-> convertDiagnostic(mine[n])]
        /\ \A i, j \in 1..Len(last.map) : outbox[i].uri = outbox[j].uri => i = j

\* the resources of the paths stored for document d
StoredKeys(d) ==
    IF DocUri(d) \in DOMAIN lastFilesByDoc
    THEN {ClientKey(PathToFileURL(q)) : q \in lastFilesByDoc[DocUri(d)]}
    ELSE {}

\* no file shows a diagnostic unless it is the document or a file of the
\* document's stored set
NoLeak ==
    \A key \in DOMAIN visible :
        visible[key] # <<>> => \E d \in PubDocs : key = OwnKey(d) \/ key \in StoredKeys(d)

\* C18: after every step of any interleaving of publishing and failing runs
\* of a document, every file on which the latest publication of its runs is
\* non-empty is the document itself or a file of its stored set; and a
\* publishing run sends a notification for every file that showed a
\* diagnostic before it.
C18_Step ==
    /\ NoLeak'
    /\ last'.op = "published" =>
          \A key \in DOMAIN visible :
              visible[key] # <<>> => \E i \in 1..Len(outbox') : ClientKey(outbox'[i].uri) = key

C18_NoStaleLeak == [][C18_Step]_vars

\* a run fails after a run that published a diagnostic on the shared file,
\* which still shows
C18_Witness ==
    /\ last.op = "failed"
    /\ Len(runs) = 2
    /\ Shown(ClientKey(PathToFileURL(SharedFile))) # <<>>
    /\ Len(Shown(OwnKey(RunDoc(last.run)))) = 1
    /\ SharedFile \in lastFilesByDoc[DocUri(RunDoc(last.run))]

\* the run an open, save or timer callback starts takes the document's text
\* of that moment; nothing changes the text a run holds while it is in
\* flight; a temp file the run writes holds that text when the write ends;
\* and a content change starts no run, writes no file and publishes nothing
SnapshotStep ==
    /\ last'.op \in {"didOpen", "didSave", "timer"} /\ runs'[Len(runs')].stage # "done" =>
          runs'[Len(runs')].text = text[runs'[Len(runs')].doc]
    /\ \A r \in RunIds : runs'[r].stage # "done" => runs'[r].text = runs[r].text
    /\ last'.op = "write" /\ runs'[last'.run].stage = "gatoc" =>
          /\ runs'[last'.run].tmpFile \in DOMAIN fs'
          /\ fs'[runs'[last'.run].tmpFile] = File(runs[last'.run].text, TRUE)
    /\ text' # text =>
          /\ last'.op = "didChange"
          /\ runs' = runs /\ fs' = fs /\ visible' = visible /\ outbox' = <<>>

\* what every run writes is its snapshot: this much holds
SnapshotWritten == [][SnapshotStep]_vars

\* C19: the text a run holds is the document's text when the run was
\* started, and while the compiler of a run is at work on the run's temp
\* file, the file holds that text: a content change made after the start
\* does not reach what the run analyses.
C19_AnalysesSnapshot ==
    \A r \in RunIds :
        runs[r].stage = "gatoc" /\ runs[r].tmpFile \in DOMAIN fs =>
            fs[runs[r].tmpFile].text = runs[r].text

\* the URI of document d has no filesystem path
Pathless(d) == DocUri(d).scheme # "file"

\* C20: a run triggered for a document whose URI has no filesystem path has
\* returned when its trigger's step ends: the step writes no file, sends
\* nothing and leaves the editor view and the stored sets as they are, and no
\* later step (write, compiler exit, unlink) belongs to such a run.  The
\* debounce entry of such a URI is made by a content change and removed by
\* the timer callback like any other.
C20_Step ==
    /\ last'.op \in {"didOpen", "didSave", "timer"} /\ Pathless(runs'[last'.run].doc) =>
          /\ last'.run = Len(runs') /\ Len(runs') = Len(runs) + 1
          /\ runs'[last'.run].stage = "done"
          /\ fs' = fs
          /\ outbox' = <<>>
          /\ visible' = visible
          /\ lastFilesByDoc' = lastFilesByDoc
    /\ last'.op \in {"write", "published", "failed", "unlink"} =>
          ~Pathless(runs'[last'.run].doc)
    /\ \A d \in Docs :
          Pathless(d) =>
              /\ text'[d] # text[d] =>
                    /\ DocUri(d) \in DOMAIN pendingValidation'
                    /\ ArmedFor(d)' = {Timer(pendingValidation'[DocUri(d)], d, now + debounceMs)}
              /\ last'.op = "timer" /\ runs'[last'.run].doc = d =>
                    /\ DocUri(d) \in DOMAIN pendingValidation
                    /\ DocUri(d) \notin DOMAIN pendingValidation'
                    /\ ArmedFor(d)' = {}

C20_PathlessDocument == [][C20_Step]_vars

\* the debounce timer of the untitled buffer has fired and its run has
\* returned at once; nothing was written or shown
C20_Witness ==
    /\ last.op = "timer"
    /\ RunDoc(last.run) = "D3"
    /\ runs[last.run].stage = "done"
    /\ text["D3"] = 1
    /\ ~HasEntry("D3")
    /\ fs = <<>> /\ visible = <<>> /\ lastFilesByDoc = <<>>
====
